---------------------------- MODULE Spec2Model ----------------------------
(***************************************************************************)
(* Command-line tic-tac-toe, version 0.2 (src/tictactoe/tictactoe.c).      *)
(*                                                                         *)
(* The program is one sequential process.  It blocks only in getchar()     *)
(* and draws randomness only from rand(); the model takes one step per     *)
(* getchar() call, one per rand() call and one per head of the two loops   *)
(* (main's dispatch loop, playGame's turn loop).  Everything the code does *)
(* between two such points is part of the step that starts it.             *)
(*                                                                         *)
(* Characters are their integer codes, so that the narrowing of getchar()'s*)
(* int result into a char variable and the arithmetic of isInRange() are   *)
(* computed as the code computes them.  char is signed (gcc on x86/x86-64, *)
(* the build on which the file header's "Fixed EOF (CTRL-D)" holds).       *)
(***************************************************************************)
EXTENDS Integers, Sequences, FiniteSets, TLC

VARIABLES
    state,       \* TheGame.m_CurrentState
    nextMove,    \* TheGame.m_NextMove
    board,       \* TheGame.m_Board, rows and columns 0 .. Dim-1
    movesLeft,   \* TheGame.m_MovesLeft
    pc,          \* the point at which the process is blocked or looping
    caller,      \* the prompt on whose behalf getPlayerInput is running
    number,      \* getPlayerInput's local `number` while it is live
    eof,         \* end-of-file indicator of stdin
    lineLen,     \* characters of the current input line consumed so far
                 \* (history of the stream, not a variable of the program)
    exitStatus,  \* argument of exit(), "running" until exit() is called
    freed        \* how many times exitGame released the board

vars == <<state, nextMove, board, movesLeft, pc, caller, number, eof,
          lineLen, exitStatus, freed>>

session == <<state, nextMove, board, movesLeft>>

-----------------------------------------------------------------------------
(* Program constants *)

Dim == 3
EOFc == -1
NL == 10
Zero == 48

(* Bounds of the model *)

\* lineLen counts up to MaxLineLen and stays there: MaxLineLen stands for
\* "MaxLineLen characters or more".
MaxLineLen == 2

-----------------------------------------------------------------------------
(* gamestate.h, nextmove.h *)

GameStates == {"MENU", "SETTINGS", "PLAY", "PAUSE", "RESTART",
               "PLAYER_WIN", "AI_WIN", "STALEMATE", "EXIT"}
NextMoves == {"PLAYER_MOVE", "AI_MOVE"}

Empty == ""
Idx == 0 .. (Dim - 1)
EmptyBoard == [i \in Idx |-> [j \in Idx |-> Empty]]
\* malloc() does not initialise: before the first resetGame the cells hold
\* whatever the allocator returned (zero pages, or garbage).
GarbageBoard == [i \in Idx |-> [j \in Idx |-> "?"]]

-----------------------------------------------------------------------------
(* Characters *)

\* What getchar() can return besides EOF: the digits, a letter, the line
\* terminator and the byte 0xFF.
Bytes == (48 .. 57) \cup {97, NL, 255}

\* int -> char (signed, 8 bits), as in `number = getchar()`.
ToChar(c) == IF c > 127 THEN c - 256 ELSE c

isdigit(c) == c \in 48 .. 57

isInRange(n, begin, end) == (n >= begin + Zero) /\ (n <= end + Zero)

\* The range each prompt passes to getPlayerInput.
RangeBegin(who) == IF who = "cell" THEN 0 ELSE 1
RangeEnd(who) == CASE who = "cell" -> 9
                   [] who = "gameover" -> 2
                   [] OTHER -> 3

-----------------------------------------------------------------------------
(* checkCell *)

\* pos / m_Dim and pos % m_Dim with m_Dim a size_t: the int pos is converted
\* to size_t first, so pos - 1 = -1 becomes 2^w - 1.  2^32 + p is written
\* 65535 * 65536 + (65536 + p) so that no intermediate value exceeds 2^31;
\* for w = 64 and Dim = 3 the quotient truncated to int is the same number.
DivSizeT(p, d) ==
    IF p >= 0 THEN p \div d
    ELSE (65535 \div d) * 65536 + (((65535 % d) * 65536) + 65536 + p) \div d

ModSizeT(p, d) ==
    IF p >= 0 THEN p % d
    ELSE (((65535 % d) * 65536) + 65536 + p) % d

\* CellX without `pos--`.
CellXNoDecrement(pos) == DivSizeT(pos, Dim)

CellX(pos) == DivSizeT(pos - 1, Dim)
CellY(pos) == ModSizeT(pos - 1, Dim)

\* Whether (m_Board)[x][y] is a cell of the board.
InBoard(pos) == CellX(pos) \in Idx /\ CellY(pos) \in Idx

\* CellEmpty without the test: every cell counts as empty.
CellEmptyAlways(b, pos) == TRUE

\* `if ((TheGame->m_Board)[x][y]) return 0;`
CellEmpty(b, pos) == b[CellX(pos)][CellY(pos)] = Empty

\* `(TheGame->m_Board)[x][y] = playerSymbol;`
Marked(b, pos, sym) ==
    [b EXCEPT ![CellX(pos)] = [@ EXCEPT ![CellY(pos)] = sym]]

\* checkCell reporting success for an occupied cell too.
checkCellAlwaysOne(b, pos, sym) ==
    IF InBoard(pos)
    THEN IF CellEmpty(b, pos)
         THEN {[ret |-> 1, board |-> Marked(b, pos, sym), fault |-> FALSE]}
         ELSE {[ret |-> 1, board |-> b, fault |-> FALSE]}
    ELSE {[ret |-> 1, board |-> b, fault |-> FALSE],
          [ret |-> 0, board |-> b, fault |-> FALSE],
          [ret |-> 0, board |-> b, fault |-> TRUE]}

\* The outcomes of checkCell(TheGame, pos, sym) on board b: the value it
\* returns and the board it leaves.  With (x, y) outside the board the read
\* and the write go through a wild pointer, which is undefined: the access
\* faults, or the stray byte reads as non-zero (return 0), or it reads as zero
\* and the symbol is written outside the board (return 1, board as it was).
checkCell(b, pos, sym) ==
    IF InBoard(pos)
    THEN IF CellEmpty(b, pos)
         THEN {[ret |-> 1, board |-> Marked(b, pos, sym), fault |-> FALSE]}
         ELSE {[ret |-> 0, board |-> b, fault |-> FALSE]}
    ELSE {[ret |-> 1, board |-> b, fault |-> FALSE],
          [ret |-> 0, board |-> b, fault |-> FALSE],
          [ret |-> 0, board |-> b, fault |-> TRUE]}

-----------------------------------------------------------------------------
(* detectedLine *)

\* RowLine without the test `!(*board)[i][j]`.
RowLineNoEmptyCheck(b, i) ==
    \A j \in 0 .. (Dim - 2) : ~(b[i][j] # b[i][j + 1])

RowLine(b, i) ==
    \A j \in 0 .. (Dim - 2) : ~(b[i][j] # b[i][j + 1] \/ b[i][j] = Empty)

ColLine(b, i) ==
    \A j \in 0 .. (Dim - 2) : ~(b[j][i] # b[j + 1][i] \/ b[j][i] = Empty)

DiagLine(b) ==
    \A i \in 0 .. (Dim - 2) : ~(b[i][i] # b[i + 1][i + 1] \/ b[i][i] = Empty)

AntiDiagLine(b) ==
    \A i \in 0 .. (Dim - 2) :
        ~(b[i][Dim - 1 - i] # b[i + 1][Dim - 2 - i] \/ b[i][Dim - 1 - i] = Empty)

detectedLine(b) ==
    \/ \E i \in Idx : RowLine(b, i)
    \/ \E i \in Idx : ColLine(b, i)
    \/ DiagLine(b)
    \/ AntiDiagLine(b)

-----------------------------------------------------------------------------
(* processTurn, after the move: lines 369-385 *)

\* TurnState with the winner taken from the side that is to move next.
TurnStateInverted(st, b, nm, ml) ==
    IF st # "PLAY" THEN st
    ELSE IF detectedLine(b)
         THEN (IF nm = "PLAYER_MOVE" THEN "PLAYER_WIN" ELSE "AI_WIN")
         ELSE (IF ml - 1 = 0 THEN "STALEMATE" ELSE "PLAY")

\* TurnState with `m_MovesLeft-- == 0` for `--m_MovesLeft == 0`.
TurnStatePostDecrement(st, b, nm, ml) ==
    IF st # "PLAY" THEN st
    ELSE IF detectedLine(b)
         THEN (IF nm = "AI_MOVE" THEN "PLAYER_WIN" ELSE "AI_WIN")
         ELSE (IF ml = 0 THEN "STALEMATE" ELSE "PLAY")

\* m_CurrentState when processTurn returns: st is the state getPlayerMove or
\* getAImove left, b the board, nm the already flipped m_NextMove and ml the
\* moves left before the decrement.
TurnState(st, b, nm, ml) ==
    IF st # "PLAY" THEN st
    ELSE IF detectedLine(b)
         THEN (IF nm = "AI_MOVE" THEN "PLAYER_WIN" ELSE "AI_WIN")
         ELSE (IF ml - 1 = 0 THEN "STALEMATE" ELSE "PLAY")

\* TurnMoves without the early `return` of lines 369-371 and 373-379.
TurnMovesAlways(st, b, ml) == ml - 1

\* m_MovesLeft when processTurn returns: decremented only when the state is
\* still PLAY and no line was found.
TurnMoves(st, b, ml) ==
    IF st # "PLAY" \/ detectedLine(b) THEN ml ELSE ml - 1

\* isGameOver without STALEMATE.
isGameOverNoStalemate(st) == st \in {"PLAYER_WIN", "AI_WIN"}

isGameOver(st) == st \in {"PLAYER_WIN", "AI_WIN", "STALEMATE"}

-----------------------------------------------------------------------------
(* initGame *)

Init ==
    /\ state = "MENU"
    /\ nextMove = "PLAYER_MOVE"
    /\ board \in {EmptyBoard, GarbageBoard}
    /\ movesLeft = Dim * Dim
    /\ pc = "dispatch"
    /\ caller = "none"
    /\ number = 0
    /\ eof = FALSE
    /\ lineLen = 0
    /\ exitStatus = "running"
    /\ freed = 0

-----------------------------------------------------------------------------
(* exitGame *)

\* `if (status) exit(EXIT_SUCCESS); else exit(EXIT_FAILURE);`
ExitCode(status) == IF status # 0 THEN "EXIT_SUCCESS" ELSE "EXIT_FAILURE"

exitGame(status) ==
    /\ freed' = freed + 1
    /\ exitStatus' = ExitCode(status)
    /\ pc' = "exited"
    /\ caller' = "none"
    /\ number' = 0
    /\ UNCHANGED session

-----------------------------------------------------------------------------
(* resetGame *)

\* ResetBoard that leaves the cells as they are.
ResetBoardKeep(b) == b

ResetBoard(b) == [i \in Idx |-> [j \in Idx |-> Empty]]

resetGame ==
    /\ board' = ResetBoard(board)
    /\ state' = "PLAY"
    /\ movesLeft' = Dim * Dim
    /\ nextMove' = "PLAYER_MOVE"

-----------------------------------------------------------------------------
(* Callers of getPlayerInput *)

\* A call getPlayerInput(RangeBegin(who), RangeEnd(who), TheGame): the process
\* blocks in the first getchar().
Prompt(who) ==
    /\ pc' = "readNumber"
    /\ caller' = who
    /\ number' = 0

\* processTurn from line 369 on, and back to the head of playGame's loop.
CompleteTurn(st, b) ==
    /\ board' = b
    /\ state' = TurnState(st, b, nextMove, movesLeft)
    /\ movesLeft' = TurnMoves(st, b, movesLeft)
    /\ UNCHANGED nextMove
    /\ pc' = "playLoop"
    /\ caller' = "none"
    /\ number' = 0

\* drawMenuScreen after getPlayerInput(1, 3) returned sel.
MenuSelected(sel) ==
    /\ state' = CASE sel = 1 -> "PLAY"
                  [] sel = 2 -> "SETTINGS"
                  [] sel = 3 -> "EXIT"
                  [] OTHER -> state
    /\ UNCHANGED <<nextMove, board, movesLeft>>
    /\ pc' = "dispatch"
    /\ caller' = "none"
    /\ number' = 0

\* getPlayerMove after getPlayerInput(0, 9) returned sel.
CellSelected(sel) ==
    IF sel = 0
    THEN \* processPauseState
         /\ Prompt("pause")
         /\ UNCHANGED session
    ELSE \E o \in checkCell(board, sel, "X") :
            IF o.fault
            THEN /\ pc' = "crashed"
                 /\ UNCHANGED <<session, caller, number>>
            ELSE IF o.ret = 1
                 THEN CompleteTurn(state, o.board)
                 ELSE \* "Please, pick an empty cell." and around the loop
                      /\ Prompt("cell")
                      /\ UNCHANGED session

\* processPauseState after getPlayerInput(1, 3) returned sel, then
\* getPlayerMove's `continue`.
PauseSelected(sel) ==
    LET st == CASE sel = 2 -> "RESTART"
                [] sel = 3 -> "MENU"
                [] OTHER -> state
    IN  IF st = "PLAY"
        THEN /\ Prompt("cell")
             /\ UNCHANGED session
        ELSE CompleteTurn(st, board)

\* GameoverSelected with "Play again" going through RESTART.
GameoverSelectedRestart(sel) ==
    /\ state' = IF sel = 1 THEN "RESTART" ELSE "MENU"
    /\ UNCHANGED <<nextMove, board, movesLeft>>
    /\ pc' = "dispatch"
    /\ caller' = "none"
    /\ number' = 0

\* GameoverSelected without `case 2: m_CurrentState = MENU`.
GameoverSelectedKeep(sel) ==
    /\ state' = IF sel = 1 THEN "PLAY" ELSE state
    /\ UNCHANGED <<nextMove, board, movesLeft>>
    /\ pc' = "dispatch"
    /\ caller' = "none"
    /\ number' = 0

\* drawGameoverScreen after getPlayerInput(1, 2) returned sel.
GameoverSelected(sel) ==
    /\ state' = IF sel = 1 THEN "PLAY" ELSE "MENU"
    /\ UNCHANGED <<nextMove, board, movesLeft>>
    /\ pc' = "dispatch"
    /\ caller' = "none"
    /\ number' = 0

Selected(sel) ==
    CASE caller = "menu" -> MenuSelected(sel)
      [] caller = "cell" -> CellSelected(sel)
      [] caller = "pause" -> PauseSelected(sel)
      [] caller = "gameover" -> GameoverSelected(sel)

-----------------------------------------------------------------------------
(* getPlayerInput *)

\* What the next getchar() can return.  Once the end-of-file indicator is set
\* every read returns EOF.
Readable == IF eof THEN {EOFc} ELSE Bytes \cup {EOFc}

\* The effect of reading c on the stream.
Consume(c) ==
    /\ eof' = (eof \/ c = EOFc)
    /\ lineLen' = IF c = EOFc THEN lineLen
                  ELSE IF c = NL THEN 0
                  ELSE IF lineLen < MaxLineLen THEN lineLen + 1 ELSE lineLen

\* `number = getchar();` and the tests of lines 104-112.
ReadNumber ==
    /\ pc = "readNumber"
    /\ \E c \in Readable :
        /\ Consume(c)
        /\ IF ToChar(c) = EOFc
           THEN /\ exitGame(0)
           ELSE /\ UNCHANGED <<session, caller, exitStatus, freed>>
                /\ IF ~isdigit(ToChar(c))
                      \/ ~isInRange(ToChar(c), RangeBegin(caller), RangeEnd(caller))
                   THEN /\ pc' = "skip"
                        /\ number' = 0
                   ELSE /\ pc' = "readLineEnd"
                        /\ number' = ToChar(c)

\* `(lineEnd = getchar()) != '\n'` of line 113, and `return (int)number - 48`.
ReadLineEnd ==
    /\ pc = "readLineEnd"
    /\ \E c \in Readable :
        /\ Consume(c)
        /\ UNCHANGED <<exitStatus, freed>>
        /\ IF ToChar(c) # NL
           THEN /\ pc' = "skip"
                /\ number' = 0
                /\ UNCHANGED <<session, caller>>
           ELSE Selected(number - Zero)

\* `while ((lineEnd = getchar()) != '\n' && lineEnd != EOF);` and `continue`.
Skip ==
    /\ pc = "skip"
    /\ \E c \in Readable :
        /\ Consume(c)
        /\ pc' = IF ToChar(c) # NL /\ ToChar(c) # EOFc
                 THEN "skip" ELSE "readNumber"
        /\ UNCHANGED <<session, caller, number, exitStatus, freed>>

-----------------------------------------------------------------------------
(* playGame and processTurn *)

stream == <<eof, lineLen, exitStatus, freed>>

\* processTurn, case PLAYER_MOVE: flip the turn and enter getPlayerMove.
ProcessTurnPlayer ==
    /\ pc = "playLoop"
    /\ state = "PLAY"
    /\ nextMove = "PLAYER_MOVE"
    /\ nextMove' = "AI_MOVE"
    /\ Prompt("cell")
    /\ UNCHANGED <<state, board, movesLeft, stream>>

\* processTurn, case AI_MOVE: flip the turn and enter getAImove.
ProcessTurnAI ==
    /\ pc = "playLoop"
    /\ state = "PLAY"
    /\ nextMove = "AI_MOVE"
    /\ nextMove' = "PLAYER_MOVE"
    /\ pc' = "aiPick"
    /\ UNCHANGED <<state, board, movesLeft, caller, number, stream>>

\* What rand() % (m_Dim * m_Dim) can be.
AIChoices == 0 .. (Dim * Dim - 1)

\* One round of getAImove's do-while.
AIPick ==
    /\ pc = "aiPick"
    /\ \E AIchoice \in AIChoices :
         \E o \in checkCell(board, AIchoice, "O") :
            IF o.fault
            THEN /\ pc' = "crashed"
                 /\ UNCHANGED <<session, caller, number>>
            ELSE IF o.ret = 1
                 THEN CompleteTurn(state, o.board)
                 ELSE UNCHANGED <<session, pc, caller, number>>
    /\ UNCHANGED stream

\* playGame after its loop: the game is over.
GameOverScreen ==
    /\ pc = "playLoop"
    /\ state # "PLAY"
    /\ isGameOver(state)
    /\ Prompt("gameover")
    /\ UNCHANGED <<session, stream>>

\* playGame after its loop: the player left through the pause menu.
PlayGameReturn ==
    /\ pc = "playLoop"
    /\ state # "PLAY"
    /\ ~isGameOver(state)
    /\ pc' = "dispatch"
    /\ UNCHANGED <<session, caller, number, stream>>

-----------------------------------------------------------------------------
(* main and updateGame *)

UpdateGame ==
    /\ pc = "dispatch"
    /\ state # "EXIT"
    /\ CASE state = "MENU" ->
              /\ Prompt("menu")
              /\ UNCHANGED session
         [] state = "SETTINGS" ->
              /\ state' = "MENU"
              /\ UNCHANGED <<nextMove, board, movesLeft, pc, caller, number>>
         [] state \in {"PLAY", "RESTART"} ->
              \* RESTART: resetGame, then playGame, which resets again
              /\ resetGame
              /\ pc' = "playLoop"
              /\ UNCHANGED <<caller, number>>
         [] OTHER ->
              \* "Unexpected game state."
              UNCHANGED <<session, pc, caller, number>>
    /\ UNCHANGED stream

MainExit ==
    /\ pc = "dispatch"
    /\ state = "EXIT"
    /\ exitGame(1)
    /\ UNCHANGED <<eof, lineLen>>

Next ==
    \/ UpdateGame
    \/ MainExit
    \/ ProcessTurnPlayer
    \/ ProcessTurnAI
    \/ AIPick
    \/ GameOverScreen
    \/ PlayGameReturn
    \/ ReadNumber
    \/ ReadLineEnd
    \/ Skip

Spec == Init /\ [][Next]_vars

TypeOK ==
    /\ state \in GameStates
    /\ nextMove \in NextMoves
    /\ movesLeft \in 0 .. (Dim * Dim)
    /\ pc \in {"dispatch", "playLoop", "aiPick", "readNumber", "readLineEnd",
               "skip", "exited", "crashed"}
    /\ caller \in {"none", "menu", "cell", "pause", "gameover"}
    /\ eof \in BOOLEAN
    /\ lineLen \in 0 .. MaxLineLen
    /\ exitStatus \in {"running", "EXIT_SUCCESS", "EXIT_FAILURE"}
    /\ freed \in 0 .. 1

-----------------------------------------------------------------------------
(* Vocabulary of the properties, defined without the operators above *)

Cells == Idx \X Idx

At(b, c) == b[c[1]][c[2]]

MarkCount(b) == Cardinality({c \in Cells : At(b, c) # Empty})

Lines ==
    {{<<i, j>> : j \in Idx} : i \in Idx}
    \cup {{<<i, j>> : i \in Idx} : j \in Idx}
    \cup {{<<i, i>> : i \in Idx}}
    \cup {{<<i, Dim - 1 - i>> : i \in Idx}}

HasLineOf(b, sym) == \E L \in Lines : \A c \in L : At(b, c) = sym

AnyLine(b) == HasLineOf(b, "X") \/ HasLineOf(b, "O")

\* This step marks exactly one empty cell with sym and changes no other cell.
JustMarked(sym) ==
    \E c \in Cells :
        /\ At(board, c) = Empty
        /\ board' = [board EXCEPT ![c[1]] = [@ EXCEPT ![c[2]] = sym]]

BetweenTurns == pc = "playLoop" /\ state = "PLAY"

-----------------------------------------------------------------------------
(* C1 *)

Allowed ==
    {<<"MENU", "PLAY">>, <<"MENU", "SETTINGS">>, <<"MENU", "EXIT">>,
     <<"PLAY", "PLAYER_WIN">>, <<"PLAY", "AI_WIN">>, <<"PLAY", "STALEMATE">>,
     <<"PLAY", "RESTART">>, <<"PLAY", "MENU">>,
     <<"PLAYER_WIN", "PLAY">>, <<"PLAYER_WIN", "MENU">>,
     <<"AI_WIN", "PLAY">>, <<"AI_WIN", "MENU">>,
     <<"STALEMATE", "PLAY">>, <<"STALEMATE", "MENU">>,
     <<"RESTART", "PLAY">>,
     <<"SETTINGS", "MENU">>}

\* C1: every change of m_CurrentState is one of the transitions Menu ->
\* {Play, Settings, Exit}, Play -> {PlayerWin, AiWin, Stalemate, Restart,
\* Menu}, PlayerWin/AiWin/Stalemate -> {Play, Menu}, Restart -> Play,
\* Settings -> Menu, and the state never leaves Exit.
C1_Transitions ==
    [][/\ state' # state => <<state, state'>> \in Allowed
       /\ state = "EXIT" => state' = "EXIT"]_vars

\* A game left through the pause menu's Restart is about to be dispatched.
C1_Witness == state = "RESTART" /\ pc = "dispatch"

-----------------------------------------------------------------------------
(* C2 *)

-----------------------------------------------------------------------------
(* C3 *)

\* C3: the step that sets PLAYER_WIN marks a cell with 'X' and leaves a line
\* of 'X'; the step that sets AI_WIN marks a cell with 'O' and leaves a line
\* of 'O'.
C3_WinAttribution ==
    [][/\ (state # "PLAYER_WIN" /\ state' = "PLAYER_WIN")
            => (JustMarked("X") /\ HasLineOf(board', "X"))
       /\ (state # "AI_WIN" /\ state' = "AI_WIN")
            => (JustMarked("O") /\ HasLineOf(board', "O"))]_vars

\* The AI has just completed a line.
C3_Witness == state = "AI_WIN" /\ pc = "playLoop" /\ HasLineOf(board, "O")

-----------------------------------------------------------------------------
(* C4 *)

\* C4: when a turn has ended with the board full and no line on it the state
\* is STALEMATE, and when a turn has ended with moves left and no line on the
\* board the state is not STALEMATE.
C4_Stalemate ==
    (pc = "playLoop" /\ ~AnyLine(board)) =>
        /\ MarkCount(board) = Dim * Dim => state = "STALEMATE"
        /\ movesLeft > 0 => ~isGameOver(state)

\* The ninth mark has been applied and no line exists.
C4_Witness ==
    /\ pc = "playLoop"
    /\ MarkCount(board) = Dim * Dim
    /\ ~AnyLine(board)
    /\ state = "STALEMATE"

-----------------------------------------------------------------------------
(* C5 *)

\* The indices the next step can pass to checkCell: any of the AI's random
\* choices in getAImove, the selection about to be returned to getPlayerMove.
CheckCellArgs ==
    CASE pc = "aiPick" -> AIChoices
      [] pc = "readLineEnd" /\ caller = "cell" /\ number # Zero ->
            {number - Zero}
      [] OTHER -> {}

\* C5: every index passed to checkCell is in 1 .. Dim * Dim, and the row and
\* column computed from it are inside the board.
C5_IndexInRange ==
    \A pos \in CheckCellArgs :
        /\ pos \in 1 .. (Dim * Dim)
        /\ (pos - 1) \div Dim \in Idx
        /\ InBoard(pos)

-----------------------------------------------------------------------------
(* C6 *)

\* C6: at every AI turn each empty cell, the last one included, is the cell
\* of some random choice, and the AI's turn ends with exactly one empty cell
\* marked 'O'.
C6_AiUniformLegal ==
    [][pc = "aiPick" =>
        /\ \A c \in Cells :
              At(board, c) = Empty =>
                 \E r \in AIChoices :
                    InBoard(r) /\ <<CellX(r), CellY(r)>> = c
        /\ pc' = "playLoop" => JustMarked("O")]_vars

-----------------------------------------------------------------------------
(* C7 *)

\* C7: a process that has terminated, through the menu's Exit or on
\* end-of-stream at a prompt, has exit status EXIT_SUCCESS.
C7_EofExitsSuccess == pc = "exited" => exitStatus = "EXIT_SUCCESS"

-----------------------------------------------------------------------------
(* C8 *)

\* C8: once end-of-stream has been read the session does not change, no
\* selection is returned and the process goes on to terminate; the board is
\* released at most once, exactly when the process exits, and the process
\* exits only after the Exit selection or end-of-stream.
C8_EofTerminates ==
    [][/\ eof => (session' = session /\ pc' \in {"readNumber", "exited"})
       /\ freed' <= 1
       /\ freed' = 1 <=> pc' = "exited"
       /\ pc' = "exited" => (state' = "EXIT" \/ eof')]_vars

-----------------------------------------------------------------------------
(* C9 *)

\* C9: getPlayerInput returns only at the terminator of a line whose one
\* other character is a digit within the range, the value returned is that
\* digit, and a step that rejects leaves the session unchanged.
C9_OnlyExactLines ==
    [][/\ (pc = "readLineEnd" /\ pc' # "skip") =>
            /\ lineLen = 1
            /\ number \in 48 .. 57
            /\ number - 48 \in RangeBegin(caller) .. RangeEnd(caller)
       /\ pc' = "skip" => session' = session]_vars

-----------------------------------------------------------------------------
(* C10 *)

\* C10: the discarding loop runs only inside the rejected line, before its
\* terminator has been consumed, and every attempt to read a selection starts
\* at the first character of a line.
C10_DiscardExactlyLine ==
    /\ (pc = "skip" /\ ~eof) => lineLen > 0
    /\ (pc = "readNumber" /\ ~eof) => lineLen = 0

-----------------------------------------------------------------------------
(* C11 *)

\* The step is the reset at the start of a game (updateGame entering
\* playGame).
GameStart == pc = "dispatch" /\ pc' = "playLoop"

\* The cell of a 1-based index, as the specification states it.
CellOf(i) == <<(i - 1) \div Dim, (i - 1) % Dim>>

\* getPlayerInput returns in this step (to the prompt `who`).
Returns(who) == pc = "readLineEnd" /\ caller = who /\ pc' # "skip"

\* C11: except at the reset that starts a game, no step changes or clears a
\* marked cell, and the board changes only in steps taken in state PLAY.
C11_MarksKept ==
    [][GameStart \/
       (/\ \A c \in Cells : At(board, c) # Empty => At(board', c) = At(board, c)
        /\ board' # board => state = "PLAY")]_vars

\* The game is paused with marks of both sides on the board.
C11_Witness ==
    /\ caller = "pause"
    /\ pc = "readNumber"
    /\ \E c \in Cells : At(board, c) = "X"
    /\ \E c \in Cells : At(board, c) = "O"

-----------------------------------------------------------------------------
(* C12 *)

\* C12: the step that enters the play loop leaves every cell empty,
\* Dim * Dim moves, state PLAY and the player to move, and no other step
\* clears a marked cell.
C12_FreshGame ==
    [][/\ GameStart =>
            /\ \A c \in Cells : At(board', c) = Empty
            /\ movesLeft' = Dim * Dim
            /\ state' = "PLAY"
            /\ nextMove' = "PLAYER_MOVE"
       /\ (\E c \in Cells : At(board, c) # Empty /\ At(board', c) = Empty)
            => GameStart]_vars

\* "Play again" was chosen after a game that ended on the player's mark: the
\* board is marked, moves are used up and the AI is the next to move.
C12_Witness ==
    /\ pc = "dispatch"
    /\ state = "PLAY"
    /\ nextMove = "AI_MOVE"
    /\ movesLeft < Dim * Dim
    /\ MarkCount(board) > 0

-----------------------------------------------------------------------------
(* C13 *)

\* C13: when getPlayerMove receives the index of an occupied cell the board,
\* m_MovesLeft, m_NextMove and the state stay as they are and the cell prompt
\* is issued again; while the cell prompt is up the only change of the board
\* is one more 'X'.
C13_OccupiedCell ==
    [][/\ (/\ Returns("cell")
           /\ number - 48 \in 1 .. (Dim * Dim)
           /\ At(board, CellOf(number - 48)) # Empty)
            => /\ session' = session
               /\ pc' = "readNumber"
               /\ caller' = "cell"
       /\ (caller = "cell" /\ board' # board) => JustMarked("X")]_vars

\* The player has typed the index of an occupied cell.
C13_Witness ==
    /\ pc = "readLineEnd"
    /\ caller = "cell"
    /\ number - 48 \in 1 .. (Dim * Dim)
    /\ At(board, CellOf(number - 48)) # Empty

-----------------------------------------------------------------------------
(* C16 *)

\* C16: when the pause prompt returns, the board, movesLeft and nextMove are
\* as they were; selection 1 keeps PLAY and goes back to the cell prompt,
\* selection 2 sets RESTART and selection 3 sets MENU, and both end the turn;
\* no step taken while the pause prompt is open marks a cell, decrements
\* movesLeft or sets PLAYER_WIN, AI_WIN or STALEMATE.
C16_Pause ==
    [][/\ Returns("pause") =>
            /\ board' = board
            /\ movesLeft' = movesLeft
            /\ nextMove' = nextMove
            /\ number - Zero = 1 =>
                  state' = "PLAY" /\ pc' = "readNumber" /\ caller' = "cell"
            /\ number - Zero = 2 => state' = "RESTART" /\ pc' = "playLoop"
            /\ number - Zero = 3 => state' = "MENU" /\ pc' = "playLoop"
       /\ caller = "pause" =>
            /\ board' = board
            /\ movesLeft' = movesLeft
            /\ state' \notin {"PLAYER_WIN", "AI_WIN", "STALEMATE"}]_vars

\* A game with marks of both sides has been left through selection 2 of the
\* pause prompt.
C16_Witness ==
    /\ pc = "playLoop"
    /\ state = "RESTART"
    /\ movesLeft + MarkCount(board) = Dim * Dim
    /\ \E c \in Cells : At(board, c) = "O"

-----------------------------------------------------------------------------
(* C17 *)

\* C17: when playGame's loop has ended, the game-over prompt opens if and
\* only if the state is PLAYER_WIN, AI_WIN or STALEMATE, and it opens nowhere
\* else; when it returns, selection 1 sets PLAY and selection 2 sets MENU, and
\* the dispatcher in state PLAY starts the game on an empty board.
C17_GameoverPrompt ==
    [][/\ (pc = "playLoop" /\ state # "PLAY") =>
            (caller' = "gameover"
                <=> state \in {"PLAYER_WIN", "AI_WIN", "STALEMATE"})
       /\ (caller' = "gameover" /\ caller # "gameover") =>
            /\ pc = "playLoop"
            /\ state \in {"PLAYER_WIN", "AI_WIN", "STALEMATE"}
       /\ Returns("gameover") =>
            /\ pc' = "dispatch"
            /\ number - Zero = 1 => state' = "PLAY"
            /\ number - Zero = 2 => state' = "MENU"
            /\ number - Zero \in {1, 2}
       /\ (pc = "dispatch" /\ state = "PLAY") =>
            /\ pc' = "playLoop"
            /\ state' = "PLAY"
            /\ \A c \in Cells : At(board', c) = Empty]_vars

\* The game ended in a draw and selection 1 is about to be returned to the
\* game-over prompt.
C17_Witness ==
    /\ pc = "readLineEnd"
    /\ caller = "gameover"
    /\ state = "STALEMATE"
    /\ number - Zero = 1

-----------------------------------------------------------------------------
(* C18 *)

-----------------------------------------------------------------------------
(* C19 *)

\* C19: whenever the AI is to pick, some random choice is the index of an
\* empty cell of the board, and the retry loop is left only by marking one
\* empty cell 'O' and completing the turn.
C19_AiTerminates ==
    [][/\ pc = "aiPick" =>
            \E r \in AIChoices : InBoard(r) /\ At(board, CellOf(r)) = Empty
       /\ (pc = "aiPick" /\ pc' # "aiPick") =>
            JustMarked("O") /\ pc' = "playLoop"]_vars

-----------------------------------------------------------------------------
(* C20 *)

InGame ==
    \/ pc \in {"playLoop", "aiPick"}
    \/ pc \in {"readNumber", "readLineEnd", "skip"}
         /\ caller \in {"cell", "pause", "gameover"}

SymCount(b, sym) == Cardinality({c \in Cells : At(b, c) = sym})

-----------------------------------------------------------------------------
(* C21 *)

\* C21: m_CurrentState is never PAUSE, and whenever main's loop calls
\* updateGame the state is MENU, SETTINGS, PLAY or RESTART, so the default
\* branch of updateGame's switch is never taken.
C21_DispatcherStates ==
    /\ state # "PAUSE"
    /\ (pc = "dispatch" /\ state # "EXIT") =>
            state \in {"MENU", "SETTINGS", "PLAY", "RESTART"}

\* The AI has won, the game-over prompt has returned selection 2 and main's
\* loop is about to call updateGame.
C21_Witness ==
    /\ pc = "dispatch"
    /\ state = "MENU"
    /\ HasLineOf(board, "O")
    /\ nextMove = "PLAYER_MOVE"

-----------------------------------------------------------------------------
(* checkCell and detectedLine on every board *)

\* A second specification: the board is any board over empty, 'X' and 'O',
\* and one step calls checkCell or detectedLine on it.  The call is recorded
\* in the variables the game does not use here: number holds the index passed
\* to checkCell (or detectedLine's result), caller the symbol passed, and
\* movesLeft the value checkCell returned (-1 for a fault).
AllBoards == [Idx -> [Idx -> {Empty, "X", "O"}]]

InitPure ==
    /\ state = "PLAY"
    /\ nextMove = "PLAYER_MOVE"
    /\ board \in AllBoards
    /\ movesLeft = 0
    /\ pc = "call"
    /\ caller = "none"
    /\ number = 0
    /\ eof = FALSE
    /\ lineLen = 0
    /\ exitStatus = "running"
    /\ freed = 0

ApplyCheckCell ==
    /\ pc = "call"
    /\ \E pos \in 1 .. (Dim * Dim), sym \in {"X", "O"} :
         \E o \in checkCell(board, pos, sym) :
            /\ board' = o.board
            /\ movesLeft' = IF o.fault THEN -1 ELSE o.ret
            /\ number' = pos
            /\ caller' = sym
    /\ pc' = "checkCellDone"
    /\ UNCHANGED <<state, nextMove, stream>>

ApplyDetectedLine ==
    /\ pc = "call"
    /\ number' = IF detectedLine(board) THEN 1 ELSE 0
    /\ pc' = "detectedLineDone"
    /\ UNCHANGED <<session, caller, stream>>

NextPure == ApplyCheckCell \/ ApplyDetectedLine

SpecPure == InitPure /\ [][NextPure]_vars

-----------------------------------------------------------------------------
(* C14 *)

\* C14: for an index i in 1 .. Dim * Dim whose cell is empty, checkCell
\* returns 1 and sets exactly the cell of row (i - 1) div Dim and column
\* (i - 1) mod Dim to the symbol; for an occupied cell it returns 0 and leaves
\* the board; distinct indices address distinct cells and every cell is
\* addressed by an index.
C14_MarkCell ==
    [][pc' = "checkCellDone" =>
        /\ At(board, CellOf(number')) = Empty =>
              /\ movesLeft' = 1
              /\ At(board', CellOf(number')) = caller'
              /\ \A c \in Cells : c # CellOf(number') => At(board', c) = At(board, c)
        /\ At(board, CellOf(number')) # Empty =>
              /\ movesLeft' = 0
              /\ board' = board
        /\ \A i, j \in 1 .. (Dim * Dim) :
              i # j => <<CellX(i), CellY(i)>> # <<CellX(j), CellY(j)>>
        /\ \A c \in Cells :
              \E i \in 1 .. (Dim * Dim) : <<CellX(i), CellY(i)>> = c]_vars

\* Index 5 on the empty board: the centre cell, row 1 and column 1, is 'X'.
C14_Witness ==
    /\ pc = "checkCellDone"
    /\ number = 5
    /\ caller = "X"
    /\ movesLeft = 1
    /\ At(board, <<1, 1>>) = "X"
    /\ MarkCount(board) = 1

-----------------------------------------------------------------------------
(* C15 *)

\* C15: on every board detectedLine returns 1 exactly when some row, column
\* or diagonal holds one same symbol in all its cells; lines of empty cells
\* do not count.
C15_DetectedLine ==
    pc = "detectedLineDone" => (number = 1 <=> AnyLine(board))

\* detectedLine has returned 1 on a board whose first column is all 'O' and
\* whose last column is all empty.
C15_Witness ==
    /\ pc = "detectedLineDone"
    /\ number = 1
    /\ \A i \in Idx : At(board, <<i, 0>>) = "O"
    /\ \A i \in Idx : At(board, <<i, 2>>) = Empty

=============================================================================
